---- MODULE Spec2Model ----
(***************************************************************************)
(* Model of src/app.py: the /get_frames request handler                    *)
(* (get_frames_endpoint), the clip fetcher (get_gif_frames) and the frame  *)
(* normaliser (resize_frame).                                              *)
(*                                                                         *)
(* Strings that the code inspects character by character (the sign         *)
(* grammar and its tokens) are sequences of one-character strings.         *)
(* Durations are kept in integer milliseconds (the code divides by 1000.0  *)
(* and sums floats; the spec accepts floating-point tolerance).            *)
(***************************************************************************)
EXTENDS Integers, Sequences, FiniteSets, TLC

\* ------------------------------------------------------------------ bounds
MaxGrammarLen == 3      \* longest sign_grammar string the translator returns
MaxFrames == 2          \* most frames in one GIF of the clip store
MaxDim == 10            \* raw frame widths and heights 1..MaxDim (resize)

\* -------------------------------------------------------- program constants
TargetHeight == 480     \* resize_frame(frame, target_height=480)
DefaultDuration == 100  \* meta_data.get("duration", 100)

\* ---------------------------------------------------------- input universes
Chars == {"A", "b", " "}
Grammars == UNION {[1..n -> Chars] : n \in 0..MaxGrammarLen}

\* request bodies: no text field, an empty text, a text
RequestBodies == {[other |-> "x"], [text |-> ""], [text |-> "hello"]}

TranslateStatuses == {200, 404, 503}
\* JSON bodies of the translation service: without or with sign_grammar
TranslateBodies == {[detail |-> <<>>]} \cup {[sign_grammar |-> g] : g \in Grammars}

\* GIF metadata: without or with a duration (milliseconds)
GifMetas == {[loop |-> 0], [loop |-> 0, duration |-> 40]}
GifSizes == {<<3, 7>>, <<1, 1>>}
ExtraDims == {41, 480, 481, 1000}
Dims == (1..MaxDim) \cup ExtraDims

\* What one GET on the clip store can do.  errAt is the number of frames
\* decoded and normalised before an exception is raised (errAt = nframes:
\* none is raised).
FetchOutcomes ==
    {[kind |-> k, nframes |-> 0, errAt |-> 0, meta |-> [loop |-> 0], size |-> <<1, 1>>]
        : k \in {"transport_error", "non200"}}
    \cup UNION {{[kind |-> "gif", nframes |-> n, errAt |-> e, meta |-> m, size |-> s]
                    : e \in 0..n, m \in GifMetas, s \in GifSizes} : n \in 1..MaxFrames}

\* ------------------------------------------------------------------- state
VARIABLES
    pc,             \* position of the handler
    request_data, original_text,
    translate_response, sign_grammar, words,
    wi, li,         \* loop positions: word in words, letter in word
    word_frames, word_durations,
    all_frames, total_duration,
    response,       \* [status, body] once the handler has answered
    translateCalls, \* history: POSTs made to the translation service
    fetchLog,       \* history: every get_gif_frames call and what it returned
    lastFetch,      \* history: the outcome and result of the latest fetch
    rW, rH, rOut    \* resize_frame on its own: input size, output size

vars == <<pc, request_data, original_text, translate_response, sign_grammar,
          words, wi, li, word_frames, word_durations, all_frames,
          total_duration, response, translateCalls, fetchLog, lastFetch,
          rW, rH, rOut>>

handlerVars == <<pc, request_data, original_text, translate_response,
                 sign_grammar, words, wi, li, word_frames, word_durations,
                 all_frames, total_duration, response, translateCalls,
                 fetchLog, lastFetch>>

resizeVars == <<rW, rH, rOut>>

None == [none |-> TRUE]

\* ------------------------------------------------------------ pure helpers
\* dict.get(key, default)
Get(d, key, default) == IF key \in DOMAIN d THEN d[key] ELSE default

RECURSIVE SumSeq(_)
SumSeq(s) == IF s = <<>> THEN 0 ELSE Head(s) + SumSeq(Tail(s))

LowerChar(c) == IF c = "A" THEN "a" ELSE c

\* str.lower()
Lower(s) == [i \in 1..Len(s) |-> LowerChar(s[i])]

IsSpace(c) == c = " "

\* str.split(): maximal runs of non-whitespace characters, in order
RECURSIVE SplitFrom(_, _, _)
SplitFrom(s, cur, acc) ==
    IF s = <<>>
    THEN IF cur = <<>> THEN acc ELSE Append(acc, cur)
    ELSE IF IsSpace(Head(s))
         THEN SplitFrom(Tail(s), <<>>, IF cur = <<>> THEN acc ELSE Append(acc, cur))
         ELSE SplitFrom(Tail(s), Append(cur, Head(s)), acc)

Split(s) == SplitFrom(s, <<>>, <<>>)

\* ------------------------------------------------------------ resize_frame
RECURSIVE GCD(_, _)
GCD(a, b) == IF b = 0 THEN a ELSE GCD(b, a % b)

RECURSIVE IsPowerOfTwo(_)
IsPowerOfTwo(n) == n = 1 \/ (n > 1 /\ n % 2 = 0 /\ IsPowerOfTwo(n \div 2))

\* img.width / img.height is a binary float: exact only when the reduced
\* denominator is a power of two
ExactRatio(W, H) == IsPowerOfTwo(H \div GCD(W, H))

\* plausible slip: the aspect ratio taken as height / width
NewWidthsSwapped(W, H) == {(TargetHeight * H) \div W}

\* int(target_height * aspect_ratio).  The product is truncated toward zero.
\* When 480*W/H is a whole number n but W/H is not an exact float, the float
\* product is n or just below n, so the truncation is n or n - 1 (41/5 gives
\* 3935); every other case truncates the exact quotient.
NewWidths(W, H) ==
    LET q == (TargetHeight * W) \div H
    IN  IF (TargetHeight * W) % H = 0 /\ ~ExactRatio(W, H)
        THEN {q - 1, q}
        ELSE {q}

\* the size of the image resize_frame returns
ResizedSize(w) == [width |-> w, height |-> TargetHeight]

\* ---------------------------------------------------------- get_gif_frames
\* one normalised, JPEG- and base64-encoded frame: opaque but for its origin
EncodedFrame(word, i, w) == [src |-> word, idx |-> i, size |-> ResizedSize(w)]

\* plausible slip: the duration is not appended with the frame
AppendFrameOnly(acc, f, d) ==
    [frames |-> Append(acc.frames, f), durations |-> acc.durations]

\* frames.append(...); durations.append(frame_duration)
AppendFrame(acc, f, d) ==
    [frames |-> Append(acc.frames, f), durations |-> Append(acc.durations, d)]

\* for frame in gif_reader: ... ; an exception at frame i leaves the loop
\* with what was appended so far
RECURSIVE DecodeLoop(_, _, _, _, _)
DecodeLoop(word, o, w, i, acc) ==
    IF i > o.nframes \/ i > o.errAt
    THEN acc
    ELSE DecodeLoop(word, o, w, i + 1,
                    AppendFrame(acc, EncodedFrame(word, i, w),
                                Get(o.meta, "duration", DefaultDuration)))

\* Whether the clip store's outcome is a failure: a transport error, a
\* non-200 status, or an exception while decoding or normalising a frame.
FetchFailed(o) ==
    \/ o.kind \in {"transport_error", "non200"}
    \/ o.kind = "gif" /\ o.errAt < o.nframes

\* get_gif_frames(word) under clip-store outcome o, with w the width
\* resize_frame computes for the GIF's frames.  Every exception is caught;
\* frames and durations are returned as they stand.
GetGifFrames(word, o, w) ==
    LET empty == [frames |-> <<>>, durations |-> <<>>]
    IN  IF o.kind = "gif" THEN DecodeLoop(word, o, w, 1, empty) ELSE empty

\* ------------------------------------------------------ get_frames_endpoint
\* plausible slip: only a missing text is rejected
TextRejectedMissingOnly(body) == "text" \notin DOMAIN body

\* if not original_text (after request_data.get("text", ""))
TextRejected(body) == Get(body, "text", "") = ""

\* plausible slip: only server errors are treated as failures
TranslateFailedServerOnly(status) == status >= 500

\* if translate_response.status_code != 200
TranslateFailed(status) == status # 200

\* if not sign_grammar
GrammarRejected(g) == g = <<>>

\* plausible slip: the letter fallback is always taken
NeedsFallbackAlways(frames) == TRUE

\* if not frames
NeedsFallback(frames) == frames = <<>>

\* plausible slip: a letter's frames are put in front of the accumulator
ExtendLetterFront(acc, clip) ==
    IF clip.frames # <<>>
    THEN [frames |-> clip.frames \o acc.frames,
          durations |-> clip.durations \o acc.durations]
    ELSE acc

\* if letter_frames: word_frames.extend(...); word_durations.extend(...)
ExtendLetter(acc, clip) ==
    IF clip.frames # <<>>
    THEN [frames |-> acc.frames \o clip.frames,
          durations |-> acc.durations \o clip.durations]
    ELSE acc

\* plausible slip: the total is overwritten by the last word's sum
AddDurationOverwrite(total, durations) == SumSeq(durations)

\* total_duration += sum(durations)
AddDuration(total, durations) == total + SumSeq(durations)

\* plausible slip: a word without frames gets no entry
AppendEntrySkipEmpty(entries, word, clip) ==
    IF clip.frames = <<>> THEN entries
    ELSE Append(entries, [word |-> word, frames |-> clip.frames,
                          durations |-> clip.durations])

\* all_frames.append({"word": word, "frames": frames, "durations": durations})
AppendEntry(entries, word, clip) ==
    Append(entries, [word |-> word, frames |-> clip.frames,
                     durations |-> clip.durations])

\* the 200 response body
Timeline(text, grammar, entries, total) ==
    [original_text |-> text, sign_grammar |-> grammar,
     frames |-> entries, total_duration |-> total]

HTTPException(status) == [status |-> status, body |-> None]

\* ------------------------------------------------------------------ actions
InitHandler ==
    /\ pc = "idle"
    /\ request_data = None
    /\ original_text = None
    /\ translate_response = None
    /\ sign_grammar = None
    /\ words = <<>>
    /\ wi = 0
    /\ li = 0
    /\ word_frames = <<>>
    /\ word_durations = <<>>
    /\ all_frames = <<>>
    /\ total_duration = 0
    /\ response = None
    /\ translateCalls = 0
    /\ fetchLog = <<>>
    /\ lastFetch = None

Init ==
    /\ InitHandler
    /\ rW = 1 /\ rH = 1 /\ rOut = None

\* lines 70-73: the request arrives and its text is validated
Receive ==
    /\ pc = "idle"
    /\ \E body \in RequestBodies :
        /\ request_data' = body
        /\ original_text' = Get(body, "text", "")
        /\ IF TextRejected(body)
           THEN /\ response' = HTTPException(400)
                /\ pc' = "done"
           ELSE /\ response' = response
                /\ pc' = "translate"
    /\ UNCHANGED <<translate_response, sign_grammar, words, wi, li, word_frames,
                   word_durations, all_frames, total_duration, translateCalls,
                   fetchLog, lastFetch, resizeVars>>

\* lines 76-89 (and 113-118 when there is no word): the translation call,
\* its checks, and the split into words
Translate ==
    /\ pc = "translate"
    /\ translateCalls' = translateCalls + 1
    /\ \E status \in TranslateStatuses, body \in TranslateBodies :
        /\ translate_response' = [status_code |-> status, json |-> body]
        /\ IF TranslateFailed(status)
           THEN /\ response' = HTTPException(status)
                /\ pc' = "done"
                /\ UNCHANGED <<sign_grammar, words, wi>>
           ELSE LET g == Get(body, "sign_grammar", <<>>)
                    ws == Split(Lower(g))
                IN  /\ sign_grammar' = g
                    /\ IF GrammarRejected(g)
                       THEN /\ response' = HTTPException(400)
                            /\ pc' = "done"
                            /\ UNCHANGED <<words, wi>>
                       ELSE /\ words' = ws
                            /\ IF ws = <<>>
                               THEN /\ response' = [status |-> 200,
                                                    body |-> Timeline(original_text, g, <<>>, 0)]
                                    /\ pc' = "done"
                                    /\ wi' = wi
                               ELSE /\ response' = response
                                    /\ pc' = "fetch_word"
                                    /\ wi' = 1
    /\ UNCHANGED <<request_data, original_text, li, word_frames, word_durations,
                   all_frames, total_duration, fetchLog, lastFetch, resizeVars>>

\* lines 106-111, then the next word or lines 113-118
FinishWord(clip) ==
    LET entries == AppendEntry(all_frames, words[wi], clip)
        total == AddDuration(total_duration, clip.durations)
    IN  /\ all_frames' = entries
        /\ total_duration' = total
        /\ IF wi = Len(words)
           THEN /\ response' = [status |-> 200,
                                body |-> Timeline(original_text, sign_grammar, entries, total)]
                /\ pc' = "done"
                /\ wi' = wi
           ELSE /\ response' = response
                /\ pc' = "fetch_word"
                /\ wi' = wi + 1

\* lines 91-95 (and 106-111 when the word has a clip): the whole-word fetch
FetchWord ==
    /\ pc = "fetch_word"
    /\ \E o \in FetchOutcomes : \E w \in NewWidths(o.size[1], o.size[2]) :
        LET clip == GetGifFrames(words[wi], o, w)
        IN  /\ lastFetch' = [token |-> words[wi], outcome |-> o, clip |-> clip]
            /\ fetchLog' = Append(fetchLog, [wi |-> wi, level |-> "word",
                                              token |-> words[wi], clip |-> clip])
            /\ IF NeedsFallback(clip.frames)
               THEN /\ word_frames' = <<>>
                    /\ word_durations' = <<>>
                    /\ li' = 1
                    /\ pc' = "fetch_letter"
                    /\ UNCHANGED <<all_frames, total_duration, response, wi>>
               ELSE /\ FinishWord(clip)
                    /\ UNCHANGED <<word_frames, word_durations, li>>
    /\ UNCHANGED <<request_data, original_text, translate_response, sign_grammar,
                   words, translateCalls, resizeVars>>

\* lines 97-104 (and 106-111 after the last letter): one letter's fetch
FetchLetter ==
    /\ pc = "fetch_letter"
    /\ \E o \in FetchOutcomes : \E w \in NewWidths(o.size[1], o.size[2]) :
        LET letter == <<words[wi][li]>>
            clip == GetGifFrames(letter, o, w)
            acc == ExtendLetter([frames |-> word_frames, durations |-> word_durations],
                                clip)
        IN  /\ lastFetch' = [token |-> letter, outcome |-> o, clip |-> clip]
            /\ fetchLog' = Append(fetchLog, [wi |-> wi, level |-> "letter",
                                              token |-> letter, clip |-> clip])
            /\ word_frames' = acc.frames
            /\ word_durations' = acc.durations
            /\ IF li = Len(words[wi])
               THEN /\ FinishWord(acc)
                    /\ li' = li
               ELSE /\ li' = li + 1
                    /\ UNCHANGED <<pc, all_frames, total_duration, response, wi>>
    /\ UNCHANGED <<request_data, original_text, translate_response, sign_grammar,
                   words, translateCalls, resizeVars>>

Next == Receive \/ Translate \/ FetchWord \/ FetchLetter

Spec == Init /\ [][Next]_vars

\* resize_frame on its own: any raw frame size, then the resize
InitResize ==
    /\ InitHandler
    /\ rW \in Dims
    /\ rH \in Dims
    /\ rOut = None

\* lines 30-35
ResizeFrame ==
    /\ rOut = None
    /\ \E w \in NewWidths(rW, rH) : rOut' = ResizedSize(w)
    /\ UNCHANGED <<rW, rH, handlerVars>>

NextResize == ResizeFrame

SpecResize == InitResize /\ [][NextResize]_vars

\* ------------------------------------------------------------- properties
\* the calls get_gif_frames logged for word number i at one level
LogOf(i, level) == SelectSeq(fetchLog, LAMBDA e : e.wi = i /\ e.level = level)

RECURSIVE ConcatFrames(_)
ConcatFrames(log) ==
    IF log = <<>> THEN <<>> ELSE Head(log).clip.frames \o ConcatFrames(Tail(log))

RECURSIVE ConcatDurations(_)
ConcatDurations(log) ==
    IF log = <<>> THEN <<>> ELSE Head(log).clip.durations \o ConcatDurations(Tail(log))

RECURSIVE AllDurations(_)
AllDurations(entries) ==
    IF entries = <<>> THEN <<>>
    ELSE Head(entries).durations \o AllDurations(Tail(entries))

Reverse(s) == [i \in 1..Len(s) |-> s[Len(s) + 1 - i]]

Answered200 == response # None /\ response.status = 200

\* C1: a token whose whole-token fetch returned at least one frame has a
\* WordEntry carrying exactly that fetch's frames and durations, and no
\* per-letter fetch was issued for it.
C1_WholeClipUsedAsIs ==
    \A i \in 1..Len(words) :
        LET whole == LogOf(i, "word")
        IN  (whole # <<>> /\ whole[1].clip.frames # <<>>) =>
                /\ Len(whole) = 1
                /\ whole[1].token = words[i]
                /\ LogOf(i, "letter") = <<>>
                /\ i <= Len(all_frames)
                /\ all_frames[i].word = words[i]
                /\ all_frames[i].frames = whole[1].clip.frames
                /\ all_frames[i].durations = whole[1].clip.durations

C1_Witness ==
    /\ Answered200
    /\ \E i \in 1..Len(response.body.frames) :
        /\ Len(words[i]) >= 2
        /\ LogOf(i, "word")[1].clip.frames # <<>>
        /\ response.body.frames[i].frames = LogOf(i, "word")[1].clip.frames

\* C2: a token whose whole-token fetch returned no frame has a WordEntry
\* carrying the concatenation, in the token's character order, of what
\* get_gif_frames returned for each character, one fetch per occurrence,
\* an empty result contributing nothing.
C2_LetterFallbackConcatenation ==
    \A i \in 1..Len(all_frames) :
        LET whole == LogOf(i, "word")
            letters == LogOf(i, "letter")
        IN  (whole # <<>> /\ whole[1].clip.frames = <<>>) =>
                /\ Len(letters) = Len(words[i])
                /\ \A j \in 1..Len(letters) : letters[j].token = <<words[i][j]>>
                /\ all_frames[i].frames = ConcatFrames(letters)
                /\ all_frames[i].durations = ConcatDurations(letters)

C2_Witness ==
    /\ Answered200
    /\ \E i \in 1..Len(response.body.frames) :
        LET letters == LogOf(i, "letter")
        IN  /\ Len(words[i]) = 3
            /\ words[i][1] = words[i][3]
            /\ Len(letters) = 3
            /\ letters[1].clip.frames # <<>>
            /\ letters[2].clip.frames = <<>>
            /\ letters[3].clip.frames # <<>>
            /\ letters[1].clip # letters[3].clip
            /\ response.body.frames[i].frames
                   = letters[1].clip.frames \o letters[3].clip.frames

\* C3: once validation and translation have passed, whatever the clip store
\* does, the request ends with a 200 response whose frames list has one
\* WordEntry per whitespace-delimited token of the lower-cased grammar, the
\* i-th entry naming the i-th token.
C3_OneEntryPerTokenInOrder ==
    /\ (Answered200 =>
            LET toks == Split(Lower(response.body.sign_grammar))
                entries == response.body.frames
            IN  /\ response.body.sign_grammar = translate_response.json.sign_grammar
                /\ Len(entries) = Len(toks)
                /\ \A i \in 1..Len(toks) : entries[i].word = toks[i])
    /\ (/\ pc = "done"
        /\ translate_response # None
        /\ translate_response.status_code = 200
        /\ sign_grammar # <<>>
        => Answered200)

C3_Witness ==
    /\ Answered200
    /\ Len(response.body.frames) >= 2
    /\ response.body.frames[1].frames = <<>>
    /\ response.body.frames[1].durations = <<>>
    /\ response.body.frames[2].frames # <<>>

\* C4: in every 200 response total_duration is the sum of every value of
\* every WordEntry's durations, whichever way the entries are summed; the
\* running total equals that sum after every word.
C4_TotalDurationIsSum ==
    /\ total_duration = SumSeq(AllDurations(all_frames))
    /\ (Answered200 =>
            /\ response.body.total_duration = SumSeq(AllDurations(response.body.frames))
            /\ response.body.total_duration
                   = SumSeq(Reverse(AllDurations(response.body.frames))))

C4_Witness ==
    /\ Answered200
    /\ Len(response.body.frames) >= 2
    /\ \A i \in 1..2 : response.body.frames[i].durations # <<>>
    /\ response.body.frames[1].durations[1] # response.body.frames[2].durations[1]
    /\ response.body.total_duration > 0

\* C5: whatever fails in a fetch (transport error, non-200 status, or an
\* exception while decoding or normalising any frame), get_gif_frames
\* returns an empty Clip.
C5_FailedFetchReturnsEmptyClip ==
    (lastFetch # None /\ FetchFailed(lastFetch.outcome)) =>
        /\ lastFetch.clip.frames = <<>>
        /\ lastFetch.clip.durations = <<>>

\* C6: every Clip get_gif_frames returns and every WordEntry has as many
\* frames as durations.
C6_FramesMatchDurations ==
    /\ \A k \in 1..Len(fetchLog) :
            Len(fetchLog[k].clip.frames) = Len(fetchLog[k].clip.durations)
    /\ lastFetch # None => Len(lastFetch.clip.frames) = Len(lastFetch.clip.durations)
    /\ Len(word_frames) = Len(word_durations)
    /\ \A i \in 1..Len(all_frames) :
            Len(all_frames[i].frames) = Len(all_frames[i].durations)
    /\ Answered200 =>
            \A i \in 1..Len(response.body.frames) :
                Len(response.body.frames[i].frames)
                    = Len(response.body.frames[i].durations)

C6_Witness ==
    /\ Answered200
    /\ lastFetch # None
    /\ lastFetch.outcome.kind = "gif"
    /\ lastFetch.outcome.errAt = 1
    /\ lastFetch.outcome.nframes = 2
    /\ \E i \in 1..Len(response.body.frames) :
        /\ LogOf(i, "word")[1].clip.frames = <<>>
        /\ Len(response.body.frames[i].frames) >= 3
        /\ Len(response.body.frames[i].durations) >= 3

\* C7: a request without a text field or with an empty text is answered 400
\* with no call to the translation service and none to the clip store.
C7_EmptyTextRejectedBeforeNetwork ==
    (pc # "idle" /\ ("text" \notin DOMAIN request_data \/ request_data.text = "")) =>
        /\ pc = "done"
        /\ response.status = 400
        /\ translateCalls = 0
        /\ translate_response = None
        /\ fetchLog = <<>>

C7_Witness ==
    /\ pc = "done"
    /\ request_data = [text |-> ""]
    /\ response.status = 400
    /\ translateCalls = 0

\* C8: a translation answer other than 200 ends the request with that same
\* status and without any clip-store fetch; no fetch is made before the
\* translation call has completed with 200.
C8_TranslationFailurePropagates ==
    /\ (translate_response # None /\ translate_response.status_code # 200) =>
            /\ pc = "done"
            /\ response.status = translate_response.status_code
            /\ fetchLog = <<>>
    /\ fetchLog # <<>> =>
            /\ translateCalls = 1
            /\ translate_response # None
            /\ translate_response.status_code = 200

C8_Witness ==
    /\ pc = "done"
    /\ translate_response # None
    /\ translate_response.status_code = 503
    /\ response.status = 503
    /\ fetchLog = <<>>

\* C9: a 200 translation answer whose sign_grammar is missing, empty or
\* without any token ends the request with status 400 and no clip-store
\* fetch, never with a 200 response.
C9_NoTokenGrammarRejected ==
    (/\ pc = "done"
     /\ translate_response # None
     /\ translate_response.status_code = 200
     /\ Split(Lower(Get(translate_response.json, "sign_grammar", <<>>))) = <<>>)
    => (response.status = 400 /\ fetchLog = <<>>)

\* round(480*W/H), halves rounded up and halves rounded to even
RoundHalfUp(W, H) == (2 * TargetHeight * W + H) \div (2 * H)
RoundHalfEven(W, H) ==
    LET q == (TargetHeight * W) \div H
    IN  IF 2 * ((TargetHeight * W) % H) = H
        THEN (IF q % 2 = 0 THEN q ELSE q + 1)
        ELSE RoundHalfUp(W, H)

Abs(x) == IF x < 0 THEN -x ELSE x

====
